---- MODULE Spec2Model ----
(***************************************************************************)
(* A model of the DigitalOcean binding of the Outline server manager:      *)
(*   - DigitalOceanServer (web_app/digitalocean_server.ts): the install    *)
(*     state poller (refreshInstallState), the promises of waitOnInstall,  *)
(*     and the decoding of key-value droplet tags;                         *)
(*   - DigitalOceanAccount (model/digitalocean_account.ts): listLocations, *)
(*     createServer, listServers and processError.                         *)
(* A string is a sequence of one-character strings, so that slicing, case  *)
(* folding, trimming and hex decoding are computed as the code does.       *)
(***************************************************************************)
EXTENDS Integers, Sequences, FiniteSets, TLC

(***************************************************************************)
(* Bounds of the model.                                                    *)
(***************************************************************************)
\* Calls of waitOnInstall(true) by the application, after the constructor's.
MaxResets == 1
\* Promises of callers of waitOnInstall that are pending at the same time.
MaxWaiters == 1
\* getDroplet requests of one server in flight at the same time.
MaxInflight == 2
\* The clock advances MaxClockSteps times, by half the install timeout each time.
MaxClockSteps == 3

(***************************************************************************)
(* Characters and strings.                                                 *)
(***************************************************************************)
\* The printable ASCII characters, code 32 first (code 96 is written <grave>).
Ascii ==
  << " ", "!", "\"", "#", "$", "%", "&", "'", "(", ")", "*", "+", ",", "-", ".", "/",
     "0", "1", "2", "3", "4", "5", "6", "7", "8", "9", ":", ";", "<", "=", ">", "?",
     "@", "A", "B", "C", "D", "E", "F", "G", "H", "I", "J", "K", "L", "M", "N", "O",
     "P", "Q", "R", "S", "T", "U", "V", "W", "X", "Y", "Z", "[", "\\", "]", "^", "_",
     "<grave>", "a", "b", "c", "d", "e", "f", "g", "h", "i", "j", "k", "l", "m", "n", "o",
     "p", "q", "r", "s", "t", "u", "v", "w", "x", "y", "z", "{", "|", "}", "~" >>

AsciiChars == {Ascii[i] : i \in 1..Len(Ascii)}

\* String.prototype.charCodeAt for one character.
CharCodeAt == [c \in AsciiChars |-> 31 + (CHOOSE i \in 1..Len(Ascii) : Ascii[i] = c)]

\* String.fromCharCode; a code outside the printable range is one opaque character.
FromCharCode(n) == IF n \in 32..126 THEN Ascii[n - 31] ELSE "<ctl>"

UpperCaseChars == {Ascii[i] : i \in 34..59}

\* String.prototype.toLowerCase, character by character.
ToLowerChar(c) == IF c \in UpperCaseChars THEN FromCharCode(CharCodeAt[c] + 32) ELSE c

ToLowerCase(s) == [i \in 1..Len(s) |-> ToLowerChar(s[i])]

\* String.prototype.slice(from) and slice(0, n), 0-based as in the code.
SliceFrom(s, from) == IF from >= Len(s) THEN << >> ELSE SubSeq(s, from + 1, Len(s))

SlicePrefix(s, n) == IF n >= Len(s) THEN s ELSE SubSeq(s, 1, n)

\* Array.prototype.join with a colon of three strings.
Join3(a, b, c) == a \o <<":">> \o b \o <<":">> \o c

(***************************************************************************)
(* infrastructure/hex_encoding: asciiToHex and hexToString.                *)
(***************************************************************************)
HexDigits == <<"0", "1", "2", "3", "4", "5", "6", "7", "8", "9", "a", "b", "c", "d", "e", "f">>

HexDigitChars == {HexDigits[i] : i \in 1..Len(HexDigits)}

IsHexDigit(c) == ToLowerChar(c) \in HexDigitChars

HexDigitValue(c) == (CHOOSE i \in 1..Len(HexDigits) : HexDigits[i] = ToLowerChar(c)) - 1

RECURSIVE asciiToHex(_)
asciiToHex(s) ==
  IF s = << >> THEN << >>
  ELSE LET code == CharCodeAt[Head(s)]
       IN  <<HexDigits[(code \div 16) + 1], HexDigits[(code % 16) + 1]>> \o asciiToHex(Tail(s))

\* The decoded bytes of a string of hex digit pairs.
RECURSIVE HexPairsToString(_)
HexPairsToString(h) ==
  IF Len(h) < 2 THEN << >>
  ELSE <<FromCharCode(16 * HexDigitValue(h[1]) + HexDigitValue(h[2]))>>
         \o HexPairsToString(SubSeq(h, 3, Len(h)))

\* hexToString throws when the text is not a sequence of hex digit pairs.
HexToStringThrows(h) == Len(h) % 2 # 0 \/ \E i \in 1..Len(h) : ~IsHexDigit(h[i])

hexToString(h) == HexPairsToString(h)

(***************************************************************************)
(* Key-value tags (digitalocean_server.ts).                                *)
(***************************************************************************)
KEY_VALUE_TAG == <<"k", "v">>

CERTIFICATE_FINGERPRINT_TAG == <<"c", "e", "r", "t", "s", "h", "a", "2", "5", "6">>

API_URL_TAG == <<"a", "p", "i", "u", "r", "l">>

INSTALL_ERROR_TAG == <<"i", "n", "s", "t", "a", "l", "l", "-", "e", "r", "r", "o", "r">>

DEPRECATED_API_PORT_TAG == <<"a", "p", "i", "p", "o", "r", "t">>

DEPRECATED_API_PREFIX_TAG == <<"a", "p", "i", "p", "r", "e", "f", "i", "x">>

makeKeyValueTag(key, value) == Join3(KEY_VALUE_TAG, key, asciiToHex(value))

makeKeyValueTagPrefix(key) == makeKeyValueTag(key, << >>)

startsWithCaseInsensitive(text, prefix) ==
  ToLowerCase(SlicePrefix(text, Len(prefix))) = ToLowerCase(prefix)

\* A JavaScript value that is a string, null or undefined.
StringValue(s) == [kind |-> "string", val |-> s]

Null == [kind |-> "null", val |-> << >>]

Undefined == [kind |-> "undefined", val |-> << >>]

\* JavaScript truthiness of such a value: a non-empty string.
Truthy(v) == v.kind = "string" /\ v.val # << >>

\* The end of getTagValue: null when hexToString throws.
decodeTagData(encodedData) ==
  IF HexToStringThrows(encodedData) THEN Null ELSE StringValue(hexToString(encodedData))

\* getTagValue with the last tag of the prefix deciding.
findLastTagValue(tags, tagPrefix) ==
  LET matching == {i \in 1..Len(tags) : startsWithCaseInsensitive(tags[i], tagPrefix)}
  IN  IF matching = {} THEN Undefined
      ELSE decodeTagData(SliceFrom(tags[CHOOSE i \in matching : \A j \in matching : i >= j],
                                   Len(tagPrefix)))

\* The body of getTagValue on the tags and the prefix of the key: the first tag
\* with the prefix decides.
findTagValue(tags, tagPrefix) ==
  LET matching == {i \in 1..Len(tags) : startsWithCaseInsensitive(tags[i], tagPrefix)}
  IN  IF matching = {} THEN Undefined
      ELSE decodeTagData(SliceFrom(tags[CHOOSE i \in matching : \A j \in matching : i <= j],
                                   Len(tagPrefix)))

getTagValue(info, key) == findTagValue(info.tags, makeKeyValueTagPrefix(key))

\* The body of ipv4Address on the v4 networks.
firstPublicAddress(v4) ==
  LET public == {i \in 1..Len(v4) : v4[i].type = "public"}
  IN  IF public = {} THEN Undefined
      ELSE StringValue(v4[CHOOSE i \in public : \A j \in public : i <= j].ip_address)

\* ipv4Address: the first public v4 network's address, or undefined.
ipv4Address(info) == firstPublicAddress(info.networks.v4)

EndsWithSlash(s) == s # << >> /\ s[Len(s)] = "/"

HttpsScheme == <<"h", "t", "t", "p", "s", ":", "/", "/">>

\* getManagementApiAddress with the old tags looked at first.
managementApiAddressOfOldTagsFirst(apiurl, portNumber, apiPrefix, ip) ==
  LET fromPort == HttpsScheme \o ip.val \o <<":">> \o portNumber.val \o <<"/">>
      deprecated == IF Truthy(apiPrefix) THEN fromPort \o apiPrefix.val \o <<"/">> ELSE fromPort
      apiAddress == IF Truthy(portNumber) /\ Truthy(ip) THEN deprecated ELSE apiurl.val
  IN  IF ~Truthy(apiurl) /\ ~Truthy(portNumber) THEN [throws |-> TRUE, val |-> << >>]
      ELSE IF ~Truthy(apiurl) /\ ~Truthy(ip) THEN [throws |-> TRUE, val |-> << >>]
      ELSE [throws |-> FALSE,
            val |-> IF EndsWithSlash(apiAddress) THEN apiAddress ELSE apiAddress \o <<"/">>]

\* The body of getManagementApiAddress on the values it reads: [throws, val].
managementApiAddressOf(apiurl, portNumber, apiPrefix, ip) ==
  LET fromPort == HttpsScheme \o ip.val \o <<":">> \o portNumber.val \o <<"/">>
      deprecated == IF Truthy(apiPrefix) THEN fromPort \o apiPrefix.val \o <<"/">> ELSE fromPort
      apiAddress == IF Truthy(apiurl) THEN apiurl.val ELSE deprecated
  IN  IF ~Truthy(apiurl) /\ ~Truthy(portNumber) THEN [throws |-> TRUE, val |-> << >>]
      ELSE IF ~Truthy(apiurl) /\ ~Truthy(ip) THEN [throws |-> TRUE, val |-> << >>]
      ELSE [throws |-> FALSE,
            val |-> IF EndsWithSlash(apiAddress) THEN apiAddress ELSE apiAddress \o <<"/">>]

getManagementApiAddress(info) ==
  managementApiAddressOf(getTagValue(info, API_URL_TAG),
                         getTagValue(info, DEPRECATED_API_PORT_TAG),
                         getTagValue(info, DEPRECATED_API_PREFIX_TAG),
                         ipv4Address(info))

\* btoa, on the characters of the model: base64 of the bytes of the string.
Base64Chars ==
  << "A", "B", "C", "D", "E", "F", "G", "H", "I", "J", "K", "L", "M", "N", "O", "P",
     "Q", "R", "S", "T", "U", "V", "W", "X", "Y", "Z", "a", "b", "c", "d", "e", "f",
     "g", "h", "i", "j", "k", "l", "m", "n", "o", "p", "q", "r", "s", "t", "u", "v",
     "w", "x", "y", "z", "0", "1", "2", "3", "4", "5", "6", "7", "8", "9", "+", "/" >>

RECURSIVE btoa(_)
btoa(s) ==
  IF s = << >> THEN << >>
  ELSE LET b1 == CharCodeAt[s[1]]
           b2 == IF Len(s) >= 2 THEN CharCodeAt[s[2]] ELSE 0
           b3 == IF Len(s) >= 3 THEN CharCodeAt[s[3]] ELSE 0
           n == b1 * 65536 + b2 * 256 + b3
           c1 == Base64Chars[(n \div 262144) + 1]
           c2 == Base64Chars[((n \div 4096) % 64) + 1]
           c3 == IF Len(s) >= 2 THEN Base64Chars[((n \div 64) % 64) + 1] ELSE "="
           c4 == IF Len(s) >= 3 THEN Base64Chars[(n % 64) + 1] ELSE "="
       IN  <<c1, c2, c3, c4>> \o (IF Len(s) > 3 THEN btoa(SubSeq(s, 4, Len(s))) ELSE << >>)

\* The body of getCertificateFingerprint on the tag's value: [throws, val].
certificateFingerprintOf(fingerprint) ==
  IF Truthy(fingerprint) THEN [throws |-> FALSE, val |-> btoa(fingerprint.val)]
  ELSE [throws |-> TRUE, val |-> << >>]

getCertificateFingerprint(info) ==
  certificateFingerprintOf(getTagValue(info, CERTIFICATE_FINGERPRINT_TAG))

(***************************************************************************)
(* Droplet infos the provider may hand out for the server's droplet.       *)
(* The droplet's status is left out: it only triggers a console timer.     *)
(***************************************************************************)
SHADOWBOX_TAG == <<"s", "h", "a", "d", "o", "w", "b", "o", "x">>

ApiUrlValue == <<"h", ":", "/", "/", "a", "/", "x">>

CertValue == <<"A", "B", "1", "2">>

PortValue == <<"8", "0">>

ErrorValue == <<"t", "r", "u", "e">>

PublicV4 == <<[type |-> "private", ip_address |-> <<"1", "0", ".", "0">>],
              [type |-> "public", ip_address |-> <<"1", ".", "2">>]>>

DropletWith(tags, v4) == [tags |-> <<SHADOWBOX_TAG>> \o tags, networks |-> [v4 |-> v4]]

\* The install script is still running: no key-value tag yet.
DInstalling == DropletWith(<< >>, PublicV4)

\* The install script has finished and tagged the droplet.
DInstalled ==
  DropletWith(<<makeKeyValueTag(API_URL_TAG, ApiUrlValue),
                makeKeyValueTag(CERTIFICATE_FINGERPRINT_TAG, CertValue)>>, PublicV4)

\* The install script has failed after it had tagged the droplet.
DFailedInstalled ==
  DropletWith(<<makeKeyValueTag(API_URL_TAG, ApiUrlValue),
                makeKeyValueTag(CERTIFICATE_FINGERPRINT_TAG, CertValue),
                makeKeyValueTag(INSTALL_ERROR_TAG, ErrorValue)>>, PublicV4)

\* An install-error tag with an empty value, beside the API URL and certificate tags.
DFailedEmptyInstalled ==
  DropletWith(<<makeKeyValueTagPrefix(INSTALL_ERROR_TAG),
                makeKeyValueTag(API_URL_TAG, ApiUrlValue),
                makeKeyValueTag(CERTIFICATE_FINGERPRINT_TAG, CertValue)>>, PublicV4)

\* A server installed by an old script: port tag, and a certificate, no API URL.
DDeprecated ==
  DropletWith(<<makeKeyValueTag(DEPRECATED_API_PORT_TAG, PortValue),
                makeKeyValueTag(CERTIFICATE_FINGERPRINT_TAG, CertValue)>>, PublicV4)

\* The droplet infos by name: dropletInfo holds the name of the one the server
\* has stored.
Droplets ==
  [installing |-> DInstalling, installed |-> DInstalled,
   failedInstalled |-> DFailedInstalled, failedEmptyInstalled |-> DFailedEmptyInstalled,
   deprecated |-> DDeprecated]

\* What the provider answers to getDroplet, and hands to the constructor.
DropletInfos == {"installing", "installed", "failedInstalled", "failedEmptyInstalled"}

\* Whether some tag of the droplet starts with the key's key-value prefix.
HasTag(info, key) ==
  \E i \in 1..Len(info.tags) :
    startsWithCaseInsensitive(info.tags[i], makeKeyValueTagPrefix(key))

(***************************************************************************)
(* DigitalOceanServer: the state of one server object.                     *)
(***************************************************************************)
VARIABLES
  installState,      \* this.installState
  dropletInfo,       \* this.dropletInfo
  now,               \* Date.now(), in ms
  pollers,           \* the pollers of refreshInstallState that can still act
  waiters,           \* the constructor's promise, then the pending promises of callers
  managementApiUrl,  \* the address given to setManagementApiUrl, or undefined
  trusted,           \* the fingerprints given to trustCertificate
  installCompleted,  \* localStorage holds 'true' under the droplet's key
  resets,            \* how often the application has called waitOnInstall(true)
  resetAt,           \* Date.now() at the last waitOnInstall(true)
  errorLog           \* what updateInstallState logged when it set ERROR, since the last reset

serverVars ==
  <<installState, dropletInfo, now, pollers, waiters, managementApiUrl, trusted,
    installCompleted, resets, resetAt, errorLog>>

InstallStates == {"UNKNOWN", "SUCCESS", "ERROR", "DELETED"}

TIMEOUT_MS == 5 * 60 * 1000

\* The step of the model's clock.
TimeStep == TIMEOUT_MS \div 2

\* What the server reads from the tags of a droplet info.
ReadTags(info) ==
  [installError |-> getTagValue(info, INSTALL_ERROR_TAG),
   certificateFingerprint |-> getCertificateFingerprint(info),
   apiAddress |-> getManagementApiAddress(info)]

\* The same for each droplet info by name, computed once.
TagsRead ==
  [installing |-> ReadTags(DInstalling), installed |-> ReadTags(DInstalled),
   failedInstalled |-> ReadTags(DFailedInstalled),
   failedEmptyInstalled |-> ReadTags(DFailedEmptyInstalled),
   deprecated |-> ReadTags(DDeprecated)]

\* setApiUrlAndCertificate, read being what the server reads from the tags of
\* this.dropletInfo: [ok, managementApiUrl, trusted] after the call.
setApiUrlAndCertificateUnchecked(read, url, trust) ==
  [ok |-> TRUE, managementApiUrl |-> url, trusted |-> trust]

setApiUrlAndCertificate(read, url, trust) ==
  IF read.certificateFingerprint.throws \/ read.apiAddress.throws
  THEN [ok |-> FALSE, managementApiUrl |-> url, trusted |-> trust]
  ELSE [ok |-> TRUE, managementApiUrl |-> StringValue(read.apiAddress.val),
        trusted |-> trust \cup {read.certificateFingerprint.val}]

\* The last branch of updateInstallState, set being what setApiUrlAndCertificate did.
installStateAfterSet(set) ==
  [installState |-> IF set.ok THEN "SUCCESS" ELSE "UNKNOWN",
   managementApiUrl |-> set.managementApiUrl, trusted |-> set.trusted, log |-> "none"]

\* The branches of updateInstallState with the tags of the API looked at before
\* the clock.
updateUnknownInstallStateTagsBeforeClock(read, elapsed, url, trust) ==
  IF Truthy(read.installError)
  THEN [installState |-> "ERROR", managementApiUrl |-> url, trusted |-> trust,
        log |-> "error tag"]
  ELSE IF setApiUrlAndCertificate(read, url, trust).ok
  THEN installStateAfterSet(setApiUrlAndCertificate(read, url, trust))
  ELSE IF elapsed >= TIMEOUT_MS
  THEN [installState |-> "ERROR", managementApiUrl |-> url, trusted |-> trust,
        log |-> "hit timeout"]
  ELSE installStateAfterSet(setApiUrlAndCertificate(read, url, trust))

\* The branches of updateInstallState once the state is known to be UNKNOWN.
updateUnknownInstallState(read, elapsed, url, trust) ==
  IF Truthy(read.installError)
  THEN [installState |-> "ERROR", managementApiUrl |-> url, trusted |-> trust,
        log |-> "error tag"]
  ELSE IF elapsed >= TIMEOUT_MS
  THEN [installState |-> "ERROR", managementApiUrl |-> url, trusted |-> trust,
        log |-> "hit timeout"]
  ELSE installStateAfterSet(setApiUrlAndCertificate(read, url, trust))

\* updateInstallState without its first test.
updateInstallStateAlways(state, read, elapsed, url, trust) ==
  updateUnknownInstallState(read, elapsed, url, trust)

\* updateInstallState, read being what the server reads from the tags of
\* this.dropletInfo and elapsed being Date.now() - startTimestamp of its poller:
\* [installState, managementApiUrl, trusted, log] after the call.
updateInstallState(state, read, elapsed, url, trust) ==
  IF state # "UNKNOWN"
  THEN [installState |-> state, managementApiUrl |-> url, trusted |-> trust, log |-> "none"]
  ELSE updateUnknownInstallState(read, elapsed, url, trust)

\* Whether a tick of the 3 s interval, finding the state state, goes on to
\* refreshDropletInfo (it clears the interval and returns otherwise).
tickRefreshesWhateverTheState(state) == TRUE

tickRefreshes(state) == state = "UNKNOWN"

RECURSIVE InflightOf(_)
\* The getDroplet requests in flight, over all pollers.
InflightOf(ps) == IF ps = << >> THEN 0 ELSE Head(ps).inflight + InflightOf(Tail(ps))

\* A poller: the closure of one refreshInstallState call, with its interval
\* (active until clearInterval) and its getDroplet requests in flight.
NewPoller(startTimestamp) ==
  [startTimestamp |-> startTimestamp, active |-> TRUE, inflight |-> 0]

\* A poller whose interval is cleared and that awaits no answer can act no more.
CanAct(poller) == poller.active \/ poller.inflight > 0

Collect(ps) == SelectSeq(ps, CanAct)

RemoveAt(seq, i) == SubSeq(seq, 1, i - 1) \o SubSeq(seq, i + 1, Len(seq))

\* The promise of waitOnInstall: its 100 ms interval is running (polling), it waits
\* for isHealthy (isHealthy), or it is settled (fulfilled, rejected).
NewWaiter(origin) ==
  [origin |-> origin, pc |-> "polling", observed |-> "none", healthy |-> "none",
   error |-> "none"]

Settled == {"fulfilled", "rejected"}

\* What the 100 ms poll does with a known install state.
observeInstallStateSwapped(waiter, state) ==
  IF state = "SUCCESS"
  THEN [waiter EXCEPT !.pc = "isHealthy", !.observed = state]
  ELSE [waiter EXCEPT !.pc = "rejected", !.observed = state,
                      !.error = IF state = "ERROR" THEN "DeletedServerError"
                                ELSE "ServerInstallFailedError"]

observeInstallState(waiter, state) ==
  IF state = "SUCCESS"
  THEN [waiter EXCEPT !.pc = "isHealthy", !.observed = state]
  ELSE IF state = "ERROR"
  THEN [waiter EXCEPT !.pc = "rejected", !.observed = state,
                      !.error = "ServerInstallFailedError"]
  ELSE [waiter EXCEPT !.pc = "rejected", !.observed = state,
                      !.error = "DeletedServerError"]

\* What the callback of isHealthy() does with its result.
settleOnHealth(waiter, isHealthy) ==
  IF isHealthy
  THEN [waiter EXCEPT !.pc = "fulfilled", !.healthy = "true"]
  ELSE [waiter EXCEPT !.pc = "rejected", !.healthy = "false",
                      !.error = "UnreachableServerError"]

\* The constructor's .then(() => this.setInstallCompleted()), on a promise that has
\* become next: the mark of localStorage, completed before, after it.
thenSetInstallCompletedOfAnyCaller(waiter, next, completed) ==
  IF next.pc = "fulfilled" THEN TRUE ELSE completed

thenSetInstallCompleted(waiter, next, completed) ==
  IF waiter.origin = "constructor" /\ next.pc = "fulfilled" THEN TRUE ELSE completed

(***************************************************************************)
(* DigitalOceanAccount: the state of one account object.                   *)
(***************************************************************************)
VARIABLES
  accessToken,       \* this.apiClient.accessToken
  servers,           \* this.servers: the DigitalOceanServer objects, by identity
  constructed,       \* how many DigitalOceanServer objects have been constructed
  pending,           \* the calls that wait for a promise, by what they wait for
  requests,          \* the provider API requests issued, by kind
  events,            \* how often account-connectivity-issue has been emitted
  calls,             \* how many account operations have been called
  lastResult,        \* how the promise of the call that settled last was settled
  regionInfos,       \* the answer of getRegionInfo that listLocations works on
  locations          \* what the last listLocations returned

accountVars ==
  <<accessToken, servers, constructed, pending, requests, events, calls, lastResult,
    regionInfos, locations>>

vars == <<serverVars, accountVars>>

\* Errors: what a promise is rejected with, or an exception thrown.
NoError == [type |-> "none", status |-> 0, message |-> "none"]

NoResult == [op |-> "none", outcome |-> "none", error |-> NoError, value |-> << >>]

NoPending == [getRegionInfo |-> 0, generateKeyPair |-> 0, createDroplet |-> 0,
              getDropletsByTag |-> 0]

NoRequests == [getRegionInfo |-> 0, createDroplet |-> 0, getDropletsByTag |-> 0]

\* An account nothing has been called on, with a well-formed token.
AccountAtRest ==
  /\ accessToken = <<"a">>
  /\ servers = << >>
  /\ constructed = 0
  /\ pending = NoPending
  /\ requests = NoRequests
  /\ events = 0
  /\ calls = 0
  /\ lastResult = NoResult
  /\ regionInfos = << >>
  /\ locations = << >>

(***************************************************************************)
(* DigitalOceanServer: construction and the steps of its callbacks.        *)
(***************************************************************************)
\* The last instant of the model's clock.
ClockEnd == MaxClockSteps * TimeStep

\* refreshInstallState in the constructor, r being what its immediate
\* updateInstallState gave: an interval is started if the state stays UNKNOWN.
RefreshedFirst(r) ==
  /\ installState = r.installState
  /\ managementApiUrl = r.managementApiUrl
  /\ trusted = r.trusted
  /\ errorLog = r.log
  /\ pollers = IF r.installState = "UNKNOWN" THEN <<NewPoller(0)>> ELSE << >>

\* refreshInstallState in waitOnInstall(true), likewise.
Refreshed(r) ==
  /\ installState' = r.installState
  /\ managementApiUrl' = r.managementApiUrl
  /\ trusted' = r.trusted
  /\ errorLog' = r.log
  /\ pollers' = IF r.installState = "UNKNOWN" THEN Append(pollers, NewPoller(now))
                ELSE pollers

\* The callback of poller p after refreshDropletInfo, r being what its
\* updateInstallState gave: the interval is cleared if the state is known.
Updated(p, r) ==
  /\ installState' = r.installState
  /\ managementApiUrl' = r.managementApiUrl
  /\ trusted' = r.trusted
  /\ errorLog' = IF r.installState = "ERROR" /\ installState = "UNKNOWN" THEN r.log
                 ELSE errorLog
  /\ pollers' = Collect([pollers EXCEPT
                           ![p].inflight = @ - 1,
                           ![p].active = @ /\ r.installState = "UNKNOWN"])

\* The state after new DigitalOceanServer(digitalOcean, dropletInfo): the constructor
\* calls waitOnInstall(true), whose promise sets the install-completed mark.
InitServer ==
  /\ dropletInfo \in DropletInfos
  /\ now = 0
  /\ resets = 0
  /\ resetAt = 0
  /\ RefreshedFirst(updateInstallState("UNKNOWN", TagsRead[dropletInfo], 0, Undefined, {}))
  /\ waiters = <<NewWaiter("constructor")>>
  /\ installCompleted = FALSE

\* waitOnInstall(true), called by the application: the state is reset, and
\* refreshInstallState updates it at once and starts an interval if it stays UNKNOWN.
WaitOnInstallReset ==
  /\ Len(waiters) <= MaxWaiters
  /\ resets < MaxResets
  /\ now + TIMEOUT_MS <= ClockEnd
  /\ resets' = resets + 1
  /\ Refreshed(updateInstallState("UNKNOWN", TagsRead[dropletInfo], now - now,
                                  managementApiUrl, trusted))
  /\ resetAt' = now
  /\ waiters' = Append(waiters, NewWaiter("caller"))
  /\ UNCHANGED <<dropletInfo, now, installCompleted, accountVars>>

\* waitOnInstall(false): only a new promise.
WaitOnInstallKeep ==
  /\ Len(waiters) <= MaxWaiters
  /\ waiters' = Append(waiters, NewWaiter("caller"))
  /\ UNCHANGED <<installState, dropletInfo, now, pollers, managementApiUrl,
                 trusted, installCompleted, resets, resetAt, errorLog, accountVars>>

\* Promise w becomes next: a caller's promise leaves the pending ones once settled.
WaiterBecomes(w, next) ==
  IF waiters[w].origin = "constructor" \/ next.pc \notin Settled
  THEN waiters' = [waiters EXCEPT ![w] = next]
  ELSE waiters' = RemoveAt(waiters, w)

\* A 100 ms tick of a promise's interval that finds the state known (a tick that
\* finds it UNKNOWN returns and changes nothing).
WaiterPoll(w) ==
  /\ waiters[w].pc = "polling"
  /\ installState # "UNKNOWN"
  /\ WaiterBecomes(w, observeInstallState(waiters[w], installState))
  /\ UNCHANGED <<installState, dropletInfo, now, pollers, managementApiUrl, trusted,
                 installCompleted, resets, resetAt, errorLog, accountVars>>

\* isHealthy() resolves; the constructor's promise, fulfilled, runs setInstallCompleted.
IsHealthyResolves(w, isHealthy) ==
  /\ waiters[w].pc = "isHealthy"
  /\ WaiterBecomes(w, settleOnHealth(waiters[w], isHealthy))
  /\ installCompleted' =
       thenSetInstallCompleted(waiters[w], settleOnHealth(waiters[w], isHealthy),
                               installCompleted)
  /\ UNCHANGED <<installState, dropletInfo, now, pollers, managementApiUrl, trusted,
                 resets, resetAt, errorLog, accountVars>>

\* A 3 s tick of a poller's interval: it stops itself if the state is known, and
\* asks for the droplet otherwise.
PollerTick(p) ==
  /\ pollers[p].active
  /\ tickRefreshes(installState) => InflightOf(pollers) < MaxInflight
  /\ pollers' = IF tickRefreshes(installState)
                THEN [pollers EXCEPT ![p].inflight = @ + 1]
                ELSE Collect([pollers EXCEPT ![p].active = FALSE])
  /\ UNCHANGED <<installState, dropletInfo, now, waiters, managementApiUrl,
                 trusted, installCompleted, resets, resetAt, errorLog, accountVars>>

\* getDroplet resolves with newDropletInfo: refreshDropletInfo stores it, then the
\* poller's callback runs updateInstallState and stops the interval if the state
\* is known.
RefreshDropletInfoResolves(p, newDropletInfo) ==
  /\ pollers[p].inflight > 0
  /\ dropletInfo' = newDropletInfo
  /\ Updated(p, updateInstallState(installState, TagsRead[newDropletInfo],
                                   now - pollers[p].startTimestamp, managementApiUrl,
                                   trusted))
  /\ UNCHANGED <<now, waiters, installCompleted, resets, resetAt, accountVars>>

\* getDroplet rejects: the callback does not run, the interval goes on.
RefreshDropletInfoRejects(p) ==
  /\ pollers[p].inflight > 0
  /\ pollers' = Collect([pollers EXCEPT ![p].inflight = @ - 1])
  /\ UNCHANGED <<installState, dropletInfo, now, waiters, managementApiUrl,
                 trusted, installCompleted, resets, resetAt, errorLog, accountVars>>

\* deleteDroplet of a host's delete() resolves: onDelete.
OnDelete ==
  /\ installState # "DELETED"
  /\ installState' = "DELETED"
  /\ UNCHANGED <<dropletInfo, now, pollers, waiters, managementApiUrl, trusted,
                 installCompleted, resets, resetAt, errorLog, accountVars>>

\* Time passes.
AdvanceClock ==
  /\ now + TimeStep <= ClockEnd
  /\ now' = now + TimeStep
  /\ UNCHANGED <<installState, dropletInfo, pollers, waiters, managementApiUrl,
                 trusted, installCompleted, resets, resetAt, errorLog, accountVars>>

\* The steps of the refresh pollers.
PollerStep ==
  \E p \in DOMAIN pollers :
    \/ PollerTick(p)
    \/ \E d \in DropletInfos : RefreshDropletInfoResolves(p, d)
    \/ RefreshDropletInfoRejects(p)

NextServer ==
  \/ WaitOnInstallReset
  \/ WaitOnInstallKeep
  \/ \E w \in DOMAIN waiters : WaiterPoll(w)
  \/ \E w \in DOMAIN waiters : \E isHealthy \in BOOLEAN : IsHealthyResolves(w, isHealthy)
  \/ \E p \in DOMAIN pollers : PollerTick(p)
  \/ \E p \in DOMAIN pollers : \E d \in DropletInfos : RefreshDropletInfoResolves(p, d)
  \/ \E p \in DOMAIN pollers : RefreshDropletInfoRejects(p)
  \/ OnDelete
  \/ AdvanceClock

\* One server object under every interleaving of its callbacks.
InitServerAlone == InitServer /\ AccountAtRest

SpecServer == InitServerAlone /\ [][NextServer]_vars

\* The same, with what the event loop guarantees: time passes, a running interval
\* ticks, and a request in flight is answered or fails.
FairSpecServer ==
  /\ SpecServer
  /\ WF_vars(AdvanceClock)
  /\ WF_vars(\E p \in DOMAIN pollers : PollerTick(p))
  /\ WF_vars(\E p \in DOMAIN pollers :
               \/ RefreshDropletInfoRejects(p)
               \/ \E d \in DropletInfos : RefreshDropletInfoResolves(p, d))

(***************************************************************************)
(* Properties of DigitalOceanServer.                                       *)
(***************************************************************************)
\* A settled promise is settled as the state its poll observed asks for.
SettledAsObserved(waiter) ==
  /\ waiter.pc = "fulfilled" =>
       waiter.observed = "SUCCESS" /\ waiter.healthy = "true" /\ waiter.error = "none"
  /\ waiter.pc = "rejected" =>
       \/ /\ waiter.observed = "SUCCESS"
          /\ waiter.healthy = "false"
          /\ waiter.error = "UnreachableServerError"
       \/ /\ waiter.observed = "ERROR"
          /\ waiter.healthy = "none"
          /\ waiter.error = "ServerInstallFailedError"
       \/ /\ waiter.observed = "DELETED"
          /\ waiter.healthy = "none"
          /\ waiter.error = "DeletedServerError"

\* What promise w is after this step, if this step is one of its callbacks.
AfterPoll(w) == observeInstallState(waiters[w], installState)

AfterHealth(w, isHealthy) == settleOnHealth(waiters[w], isHealthy)

\* C1, as stated: a promise of waitOnInstall is never settled by a step taken while
\* installState is UNKNOWN, and it is settled as the first known state seen by its
\* poll asks for: fulfilled only on SUCCESS with isHealthy() true, rejected with
\* UnreachableServerError on SUCCESS with isHealthy() false, with
\* ServerInstallFailedError on ERROR and with DeletedServerError on DELETED.
C1_NeverSettlesWhileUnknown ==
  [][\A w \in DOMAIN waiters :
       /\ (WaiterPoll(w) /\ AfterPoll(w).pc \in Settled) =>
            installState # "UNKNOWN" /\ SettledAsObserved(AfterPoll(w))
       /\ \A isHealthy \in BOOLEAN :
            IsHealthyResolves(w, isHealthy) =>
              installState # "UNKNOWN" /\ SettledAsObserved(AfterHealth(w, isHealthy))]_vars

\* C1, amended: a promise of waitOnInstall is never settled before its poll has seen
\* installState known; the poll records the state of that very moment; and the
\* promise is settled as that state asks for: at once on ERROR and DELETED, and on
\* SUCCESS when isHealthy() resolves (installState may be UNKNOWN again by then).
C1_SettlesAsFirstObserved ==
  [][\A w \in DOMAIN waiters :
       /\ WaiterPoll(w) =>
            /\ waiters[w].observed = "none"
            /\ installState # "UNKNOWN"
            /\ AfterPoll(w).observed = installState
            /\ SettledAsObserved(AfterPoll(w))
            /\ AfterPoll(w).pc \in Settled <=> installState # "SUCCESS"
       /\ \A isHealthy \in BOOLEAN :
            IsHealthyResolves(w, isHealthy) =>
              /\ waiters[w].observed = "SUCCESS"
              /\ AfterHealth(w, isHealthy).pc \in Settled
              /\ AfterHealth(w, isHealthy).pc = "fulfilled" <=> isHealthy
              /\ SettledAsObserved(AfterHealth(w, isHealthy))
       /\ (waiters[w].pc \notin Settled /\ w \in DOMAIN waiters' /\ waiters'[w].pc \in Settled)
            => WaiterPoll(w) \/ \E isHealthy \in BOOLEAN : IsHealthyResolves(w, isHealthy)]_vars

\* C1, witness: the constructor's promise has been fulfilled on an observed SUCCESS
\* while installState is UNKNOWN again.
C1_Witness ==
  /\ installState = "UNKNOWN"
  /\ waiters[1].pc = "fulfilled"
  /\ resets > 0

\* C2, as stated: once refreshInstallState has been started, an UNKNOWN installState
\* is always followed by a known one (ERROR at the latest once the timeout has
\* elapsed), also when getDroplet requests fail.
C2_EventuallyKnown == (installState = "UNKNOWN") ~> (installState # "UNKNOWN")

\* C3, as stated: installState is set to ERROR by the timeout no earlier than
\* 5 minutes after the last waitOnInstall(true).
C3_TimeoutCountsFromLastReset ==
  errorLog = "hit timeout" => now >= resetAt + TIMEOUT_MS

\* C4: no step of a refresh poller (a tick, the completion or the failure of a
\* getDroplet request) changes an installState that is SUCCESS, ERROR or DELETED.
C4_KnownStateKeptByPollers ==
  [][(installState # "UNKNOWN" /\ PollerStep) => installState' = installState]_vars

\* C4, witness: the server has been deleted, never having reached SUCCESS or ERROR,
\* and its pollers have stopped on finding the state known, the droplet info
\* the last request fetched carrying the tags of a finished install.
C4_Witness ==
  /\ installState = "DELETED"
  /\ managementApiUrl = Undefined
  /\ errorLog = "none"
  /\ pollers = << >>
  /\ dropletInfo = "installed"

\* C5: in every reachable state, installState = SUCCESS implies that the management
\* API URL has been set and a certificate fingerprint has been trusted.
C5_SuccessHasUrlAndCertificate ==
  installState = "SUCCESS" => managementApiUrl.kind = "string" /\ trusted # {}

\* C5, witness: SUCCESS reached by a poller's update after a waitOnInstall(true)
\* that had left the state UNKNOWN.
C5_Witness ==
  /\ installState = "SUCCESS"
  /\ resetAt > 0
  /\ errorLog = "none"
  /\ \E p \in DOMAIN pollers : pollers[p].startTimestamp = resetAt

\* C6, as stated: whenever updateInstallState runs on an UNKNOWN state with droplet
\* tags that contain a tag starting with kv:install-error:, installState becomes
\* ERROR, whatever the value of the tag and whatever other tags there are.
C6_ErrorTagGivesError ==
  [][/\ \A p \in DOMAIN pollers : \A d \in DropletInfos :
          (/\ installState = "UNKNOWN"
           /\ HasTag(Droplets[d], INSTALL_ERROR_TAG)
           /\ RefreshDropletInfoResolves(p, d)) => installState' = "ERROR"
     /\ (HasTag(Droplets[dropletInfo], INSTALL_ERROR_TAG) /\ WaitOnInstallReset)
          => installState' = "ERROR"]_vars

\* C11: isInstallCompleted() is true only if the promise of the constructor's
\* waitOnInstall has been fulfilled (on an observed SUCCESS with isHealthy() true); the
\* mark is set by that fulfilment alone, never by a rejection or by the promise of
\* another caller; and once true it stays true, whatever happens later.
C11_InstallCompletedOnlyByConstructorWait ==
  [][/\ installCompleted' =>
          /\ waiters'[1].origin = "constructor"
          /\ waiters'[1].pc = "fulfilled"
          /\ waiters'[1].observed = "SUCCESS"
          /\ waiters'[1].healthy = "true"
     /\ (~installCompleted /\ installCompleted') => IsHealthyResolves(1, TRUE)
     /\ installCompleted => installCompleted']_vars

\* C11, witness: the mark is set, and the server has since been reset by
\* waitOnInstall(true) and deleted.
C11_Witness ==
  /\ installCompleted
  /\ resets > 0
  /\ installState = "DELETED"

RECURSIVE ActiveOf(_)
\* The pollers whose interval is not cleared.
ActiveOf(ps) ==
  IF ps = << >> THEN 0
  ELSE (IF Head(ps).active THEN 1 ELSE 0) + ActiveOf(Tail(ps))

\* C12: a poller issues a getDroplet request only while installState is UNKNOWN: an
\* interval is started only by a refreshInstallState that leaves the state UNKNOWN, a
\* request is added only by a step that finds the state UNKNOWN, and the poller whose
\* update makes the state known has its interval cleared by that same step.
C12_RequestsOnlyWhileUnknown ==
  [][/\ InflightOf(pollers') > InflightOf(pollers) => installState = "UNKNOWN"
     /\ ActiveOf(pollers') > ActiveOf(pollers) => installState' = "UNKNOWN"
     /\ \A p \in DOMAIN pollers : \A d \in DropletInfos :
          /\ RefreshDropletInfoResolves(p, d)
          /\ installState = "UNKNOWN"
          /\ installState' # "UNKNOWN"
          => ActiveOf(pollers') = ActiveOf(pollers) - (IF pollers[p].active THEN 1 ELSE 0)
     /\ \A p \in DOMAIN pollers :
          PollerTick(p) /\ installState # "UNKNOWN"
          => /\ InflightOf(pollers') = InflightOf(pollers)
             /\ ActiveOf(pollers') = ActiveOf(pollers) - 1]_vars

\* C12, witness: the droplet is still installing and no time has passed, so no update
\* has decided the state; the server was deleted, and the constructor's interval has
\* been cleared by a tick that found the state known and asked for nothing.
C12_Witness ==
  /\ installState = "DELETED"
  /\ dropletInfo = "installing"
  /\ now = 0
  /\ resets = 0
  /\ pollers = << >>

(***************************************************************************)
(* DigitalOceanAccount: bounds and the answers of the provider.            *)
(***************************************************************************)
\* Account operations called by the application.
MaxCalls == 3
\* Droplets in one answer of getDropletsByTag.
MaxDroplets == 2
\* Characters of an access token.
MaxTokenLen == 2
\* Regions in one answer of getRegionInfo.
MaxRegions == 3

\* All sequences over S of length at most n.
RECURSIVE SeqsUpTo(_, _)
SeqsUpTo(S, n) ==
  IF n = 0 THEN {<< >>}
  ELSE LET shorter == SeqsUpTo(S, n - 1)
       IN  shorter \cup {Append(q, x) : q \in {t \in shorter : Len(t) = n - 1}, x \in S}

MACHINE_SIZE == <<"s", "-", "1", "v", "c", "p", "u", "-", "1", "g", "b">>

OtherSize == <<"s", "-", "2", "v", "c", "p", "u", "-", "2", "g", "b">>

\* Region slugs: two data centers of one city (one spelled in upper case), and a
\* slug shorter than a city id.
Slugs == {<<"n", "y", "c", "1">>, <<"N", "Y", "C", "3">>, <<"s", "f">>}

Regions == [slug : Slugs, available : BOOLEAN, sizes : {<<MACHINE_SIZE>>, <<OtherSize>>}]

RegionLists == SeqsUpTo(Regions, MaxRegions)

\* What getRegionInfo answers while the whole account is explored.
AnsweredRegionLists ==
  {<< >>,
   <<[slug |-> <<"n", "y", "c", "1">>, available |-> TRUE, sizes |-> <<MACHINE_SIZE>>],
     [slug |-> <<"s", "f">>, available |-> FALSE, sizes |-> <<MACHINE_SIZE>>]>>}

\* The droplets of the account, by the name of their info, and what
\* getDropletsByTag answers.
AccountDroplets == {"installing", "installed"}

DropletLists == SeqsUpTo(AccountDroplets, MaxDroplets)

TokenChars == {"a", " ", "$"}

\* A token with a character of each part of the pattern's class, and one with a
\* blank inside.
WellFormedToken == <<"A", "z", "0", "_", "/", "-">>

BrokenToken == <<"a", " ", "a">>

Tokens == SeqsUpTo(TokenChars, MaxTokenLen) \cup {WellFormedToken, BrokenToken}

\* The errors a provider API call can fail with, and the other errors.
HttpError(status) == [type |-> "HttpError", status |-> status, message |-> "http"]

NetworkError == [type |-> "NetworkError", status |-> 0, message |-> "network"]

OtherError == [type |-> "Error", status |-> 0, message |-> "other"]

InvalidTokenError ==
  [type |-> "Error", status |-> 0, message |-> "Invalid DigitalOcean Token"]

ApiErrors == {HttpError(401), HttpError(500), NetworkError, OtherError}

(***************************************************************************)
(* DigitalOceanAccount: the pure parts.                                    *)
(***************************************************************************)
WhiteSpaceChars == {" ", "\t", "\n", "\r"}

\* String.prototype.trim.
RECURSIVE TrimStart(_)
TrimStart(s) ==
  IF s # << >> /\ Head(s) \in WhiteSpaceChars THEN TrimStart(Tail(s)) ELSE s

RECURSIVE TrimEnd(_)
TrimEnd(s) ==
  IF s # << >> /\ s[Len(s)] \in WhiteSpaceChars THEN TrimEnd(SubSeq(s, 1, Len(s) - 1))
  ELSE s

Trim(s) == TrimEnd(TrimStart(s))

LowerCaseChars == {Ascii[i] : i \in 66..91}

DigitChars == {Ascii[i] : i \in 17..26}

\* The character class [A-Za-z0-9_\/-].
PatternChars == UpperCaseChars \cup LowerCaseChars \cup DigitChars \cup {"_", "/", "-"}

\* pattern.test(s) for /^[A-Za-z0-9_\/-]+$/.
PatternTest(s) == s # << >> /\ \A i \in 1..Len(s) : s[i] \in PatternChars

\* pattern.test(s) had the pattern no anchors: some character of the class.
PatternTestUnanchored(s) == \E i \in 1..Len(s) : s[i] \in PatternChars

\* sanitizeDigitalOceanToken: [throws, val].
sanitizeDigitalOceanTokenUnanchored(input) ==
  LET sanitizedInput == Trim(input)
  IN  IF ~PatternTestUnanchored(sanitizedInput) THEN [throws |-> TRUE, val |-> << >>]
      ELSE [throws |-> FALSE, val |-> sanitizedInput]

sanitizeDigitalOceanToken(input) ==
  LET sanitizedInput == Trim(input)
  IN  IF ~PatternTest(sanitizedInput) THEN [throws |-> TRUE, val |-> << >>]
      ELSE [throws |-> FALSE, val |-> sanitizedInput]

\* getInstallScript throws when the token cannot be sanitized; the script it builds
\* otherwise is only handed to createDroplet.
getInstallScript(token) == sanitizeDigitalOceanToken(token)

\* processError: how many account-connectivity-issue events it emits.
processErrorAnyHttpError(error) ==
  IF error.type = "HttpError" THEN 1
  ELSE IF error.type = "NetworkError" THEN 1
  ELSE 0

processError(error) ==
  IF error.type = "HttpError"
  THEN IF error.status = 401 THEN 1 ELSE 0
  ELSE IF error.type = "NetworkError" THEN 1
  ELSE 0

\* GetCityId: slug.substr(0, 3).toLowerCase().
GetCityIdAsSpelled(slug) == SlicePrefix(slug, 3)

GetCityId(slug) == ToLowerCase(SlicePrefix(slug, 3))

\* sizes.indexOf(size) !== -1
Includes(sizes, size) == \E i \in 1..Len(sizes) : sizes[i] = size

\* The forEach of listLocations, from its region on, on the locations built so far.
RECURSIVE forEachRegion(_, _)
forEachRegion(regions, built) ==
  IF regions = << >> THEN built
  ELSE LET region == Head(regions)
           regionId == GetCityId(region.slug)
           found == {i \in 1..Len(built) : built[i].regionId = regionId}
           location == CHOOSE i \in found : \A j \in found : i <= j
           next ==
             IF region.available /\ Includes(region.sizes, MACHINE_SIZE)
             THEN IF found # {}
                  THEN [built EXCEPT ![location].dataCenterIds = Append(@, region.slug)]
                  ELSE Append(built, [regionId |-> GetCityId(region.slug),
                                      dataCenterIds |-> <<region.slug>>])
             ELSE built
       IN  forEachRegion(Tail(regions), next)

\* What listLocations returns when getRegionInfo answers regions.
listLocations(regions) == forEachRegion(regions, << >>)

\* droplets.map((droplet) => new DigitalOceanServer(...)) when made server objects
\* have been constructed before: each object is new.
mapDropletsToKnownServers(droplets, made) ==
  [i \in 1..Len(droplets) |-> [id |-> i, droplet |-> droplets[i]]]

mapDropletsToServers(droplets, made) ==
  [i \in 1..Len(droplets) |-> [id |-> made + i, droplet |-> droplets[i]]]

(***************************************************************************)
(* DigitalOceanAccount: the operations, one action per call and one per    *)
(* continuation after an await.                                            *)
(***************************************************************************)
Result(op, outcome, error, value) ==
  [op |-> op, outcome |-> outcome, error |-> error, value |-> value]

\* new DigitalOceanAccount(...), for each access token.
InitAccount ==
  /\ accessToken \in Tokens
  /\ servers = << >>
  /\ constructed = 0
  /\ pending = NoPending
  /\ requests = NoRequests
  /\ events = 0
  /\ calls = 0
  /\ lastResult = NoResult
  /\ regionInfos = << >>
  /\ locations = << >>

\* listLocations() up to its await: getRegionInfo is requested.
ListLocations ==
  /\ calls < MaxCalls
  /\ calls' = calls + 1
  /\ requests' = [requests EXCEPT !.getRegionInfo = @ + 1]
  /\ pending' = [pending EXCEPT !.getRegionInfo = @ + 1]
  /\ UNCHANGED <<accessToken, servers, constructed, events, lastResult, regionInfos,
                 locations, serverVars>>

\* getRegionInfo answers: the locations are built and returned.
ListLocationsResolves(answer) ==
  /\ pending.getRegionInfo > 0
  /\ pending' = [pending EXCEPT !.getRegionInfo = @ - 1]
  /\ regionInfos' = answer
  /\ locations' = listLocations(answer)
  /\ lastResult' = Result("listLocations", "fulfilled", NoError, << >>)
  /\ UNCHANGED <<accessToken, servers, constructed, requests, events, calls, serverVars>>

\* getRegionInfo fails: the catch block runs processError and the promise is
\* fulfilled with undefined.
ListLocationsCatches(error) ==
  /\ pending.getRegionInfo > 0
  /\ pending' = [pending EXCEPT !.getRegionInfo = @ - 1]
  /\ events' = events + processError(error)
  /\ lastResult' = Result("listLocations", "fulfilled", error, << >>)
  /\ UNCHANGED <<accessToken, servers, constructed, requests, calls, regionInfos,
                 locations, serverVars>>

\* createServer(name, location) up to its first await: getInstallScript throws for a
\* bad token, which rejects the promise; otherwise the key pair is awaited.
CreateServer ==
  /\ calls < MaxCalls
  /\ calls' = calls + 1
  /\ IF getInstallScript(accessToken).throws
     THEN /\ lastResult' = Result("createServer", "rejected", InvalidTokenError, << >>)
          /\ UNCHANGED pending
     ELSE /\ pending' = [pending EXCEPT !.generateKeyPair = @ + 1]
          /\ UNCHANGED lastResult
  /\ UNCHANGED <<accessToken, servers, constructed, requests, events, regionInfos,
                 locations, serverVars>>

\* crypto.generateKeyPair() answers: createDroplet is requested.
GenerateKeyPairResolves ==
  /\ pending.generateKeyPair > 0
  /\ pending' = [pending EXCEPT !.generateKeyPair = @ - 1, !.createDroplet = @ + 1]
  /\ requests' = [requests EXCEPT !.createDroplet = @ + 1]
  /\ UNCHANGED <<accessToken, servers, constructed, events, calls, lastResult,
                 regionInfos, locations, serverVars>>

\* crypto.generateKeyPair() fails, outside the try block: the promise is rejected.
GenerateKeyPairRejects ==
  /\ pending.generateKeyPair > 0
  /\ pending' = [pending EXCEPT !.generateKeyPair = @ - 1]
  /\ lastResult' = Result("createServer", "rejected", OtherError, << >>)
  /\ UNCHANGED <<accessToken, servers, constructed, requests, events, calls,
                 regionInfos, locations, serverVars>>

\* createDroplet answers: a server object is constructed, pushed and returned.
CreateDropletResolves(droplet) ==
  /\ pending.createDroplet > 0
  /\ pending' = [pending EXCEPT !.createDroplet = @ - 1]
  /\ LET server == [id |-> constructed + 1, droplet |-> droplet]
     IN  /\ servers' = Append(servers, server)
         /\ lastResult' = Result("createServer", "fulfilled", NoError, <<server>>)
  /\ constructed' = constructed + 1
  /\ UNCHANGED <<accessToken, requests, events, calls, regionInfos, locations,
                 serverVars>>

\* createDroplet fails: processError, and the promise is fulfilled with undefined.
CreateDropletCatches(error) ==
  /\ pending.createDroplet > 0
  /\ pending' = [pending EXCEPT !.createDroplet = @ - 1]
  /\ events' = events + processError(error)
  /\ lastResult' = Result("createServer", "fulfilled", error, << >>)
  /\ UNCHANGED <<accessToken, servers, constructed, requests, calls, regionInfos,
                 locations, serverVars>>

\* listServers(false): the in-memory servers are returned.
ListServersFromMemory ==
  /\ calls < MaxCalls
  /\ calls' = calls + 1
  /\ lastResult' = Result("listServers", "fulfilled", NoError, servers)
  /\ UNCHANGED <<accessToken, servers, constructed, pending, requests, events,
                 regionInfos, locations, serverVars>>

\* listServers(true) up to its await: getDropletsByTag is requested.
ListServers ==
  /\ calls < MaxCalls
  /\ calls' = calls + 1
  /\ requests' = [requests EXCEPT !.getDropletsByTag = @ + 1]
  /\ pending' = [pending EXCEPT !.getDropletsByTag = @ + 1]
  /\ UNCHANGED <<accessToken, servers, constructed, events, lastResult, regionInfos,
                 locations, serverVars>>

\* getDropletsByTag answers: this.servers is replaced by new server objects.
ListServersResolves(droplets) ==
  /\ pending.getDropletsByTag > 0
  /\ pending' = [pending EXCEPT !.getDropletsByTag = @ - 1]
  /\ servers' = mapDropletsToServers(droplets, constructed)
  /\ constructed' = constructed + Len(droplets)
  /\ lastResult' = Result("listServers", "fulfilled", NoError, servers')
  /\ UNCHANGED <<accessToken, requests, events, calls, regionInfos, locations,
                 serverVars>>

\* getDropletsByTag fails: processError, and the promise is fulfilled with undefined.
ListServersCatches(error) ==
  /\ pending.getDropletsByTag > 0
  /\ pending' = [pending EXCEPT !.getDropletsByTag = @ - 1]
  /\ events' = events + processError(error)
  /\ lastResult' = Result("listServers", "fulfilled", error, << >>)
  /\ UNCHANGED <<accessToken, servers, constructed, requests, calls, regionInfos,
                 locations, serverVars>>

NextAccount ==
  \/ ListLocations
  \/ \E answer \in AnsweredRegionLists : ListLocationsResolves(answer)
  \/ \E error \in ApiErrors : ListLocationsCatches(error)
  \/ CreateServer
  \/ GenerateKeyPairResolves
  \/ GenerateKeyPairRejects
  \/ \E droplet \in AccountDroplets : CreateDropletResolves(droplet)
  \/ \E error \in ApiErrors : CreateDropletCatches(error)
  \/ ListServersFromMemory
  \/ ListServers
  \/ \E droplets \in DropletLists : ListServersResolves(droplets)
  \/ \E error \in ApiErrors : ListServersCatches(error)

\* The server object the account is explored next to: installed at construction.
ServerAtRest == InitServer /\ dropletInfo = "installed"

\* One account under every interleaving of its calls and their continuations.
InitAccountAlone == InitAccount /\ ServerAtRest

SpecAccount == InitAccountAlone /\ [][NextAccount]_vars

\* listLocations alone, waiting for getRegionInfo, for every answer it can get.
InitLocations ==
  /\ regionInfos \in RegionLists
  /\ accessToken = <<"a">>
  /\ servers = << >>
  /\ constructed = 0
  /\ pending = [NoPending EXCEPT !.getRegionInfo = 1]
  /\ requests = [NoRequests EXCEPT !.getRegionInfo = 1]
  /\ events = 0
  /\ calls = 1
  /\ lastResult = NoResult
  /\ locations = << >>

NextLocations == ListLocationsResolves(regionInfos)

InitLocationsAlone == InitLocations /\ ServerAtRest

SpecLocations == InitLocationsAlone /\ [][NextLocations]_vars

(***************************************************************************)
(* DigitalOceanServer: what it reads from the tags, for every droplet info *)
(* of a family of tag lists.                                               *)
(***************************************************************************)
TagKeys ==
  <<API_URL_TAG, DEPRECATED_API_PORT_TAG, DEPRECATED_API_PREFIX_TAG,
    CERTIFICATE_FINGERPRINT_TAG, INSTALL_ERROR_TAG>>

PrefixValue == <<"p">>

\* The value the install script gives each key, in the order of TagKeys.
TagValues == <<ApiUrlValue, PortValue, PrefixValue, CertValue, ErrorValue>>

\* For each key: no tag, the tag of its value, or a tag of the empty value.
TagChoices == {"none", "value", "empty"}

ChosenTags(k, choice) ==
  CASE choice = "none" -> << >>
    [] choice = "value" -> <<makeKeyValueTag(TagKeys[k], TagValues[k])>>
    [] choice = "empty" -> <<makeKeyValueTagPrefix(TagKeys[k])>>

ToUpperChar(c) == IF c \in LowerCaseChars THEN FromCharCode(CharCodeAt[c] - 32) ELSE c

\* A tag of the key whose remainder is no hex text.
BadHexTag(k) == makeKeyValueTagPrefix(TagKeys[k]) \o <<"z", "z">>

\* The tag of the key's value with its prefix in upper case.
ShoutedTag(k) ==
  [i \in 1..Len(makeKeyValueTagPrefix(TagKeys[k])) |->
     ToUpperChar(makeKeyValueTagPrefix(TagKeys[k])[i])] \o asciiToHex(TagValues[k])

\* What may stand before the chosen tags: nothing, or one unusual tag of some key.
OddTags ==
  {<< >>} \cup {<<BadHexTag(k)>> : k \in DOMAIN TagKeys}
          \cup {<<ShoutedTag(k)>> : k \in DOMAIN TagKeys}

\* The same, with the unusual tags of the API URL and the certificate only.
OddInstallTags == {<< >>, <<BadHexTag(1)>>, <<BadHexTag(4)>>}

PrivateV4 == <<[type |-> "private", ip_address |-> <<"1", "0", ".", "0">>]>>

TaggedDroplets(odds, networks) ==
  {DropletWith(odd \o ChosenTags(1, c[1]) \o ChosenTags(2, c[2]) \o ChosenTags(3, c[3])
                   \o ChosenTags(4, c[4]) \o ChosenTags(5, c[5]), v4) :
     odd \in odds, c \in [DOMAIN TagKeys -> TagChoices], v4 \in networks}

\* The elapsed times at which updateInstallState is called.
ElapsedTimes == {0, TIMEOUT_MS - 1, TIMEOUT_MS}

\* A server whose state has just been reset by waitOnInstall(true), for each droplet
\* info; here dropletInfo holds the droplet info itself.
ServerReset ==
  /\ installState = "UNKNOWN"
  /\ now = 0
  /\ pollers = << >>
  /\ waiters = << >>
  /\ managementApiUrl = Undefined
  /\ trusted = {}
  /\ installCompleted = FALSE
  /\ resets = 0
  /\ resetAt = 0
  /\ errorLog = "none"

\* getTagValue(key).
CallGetTagValue(key) ==
  /\ lastResult' = Result("getTagValue", "returned", NoError,
                          [key |-> key, value |-> getTagValue(dropletInfo, key)])
  /\ UNCHANGED <<serverVars, accessToken, servers, constructed, pending, requests,
                 events, calls, regionInfos, locations>>

\* What setApiUrlAndCertificate leaves, set being what it did.
ApiUrlAndCertificateSet(set) ==
  /\ managementApiUrl' = set.managementApiUrl
  /\ trusted' = set.trusted
  /\ lastResult' = Result("setApiUrlAndCertificate", "returned", NoError, set.ok)

\* setApiUrlAndCertificate().
CallSetApiUrlAndCertificate ==
  /\ ApiUrlAndCertificateSet(setApiUrlAndCertificate(ReadTags(dropletInfo),
                                                     managementApiUrl, trusted))
  /\ UNCHANGED <<installState, dropletInfo, now, pollers, waiters, installCompleted,
                 resets, resetAt, errorLog, accessToken, servers, constructed, pending,
                 requests, events, calls, regionInfos, locations>>

\* What updateInstallState leaves, r being what it gave.
InstallStateUpdated(r) ==
  /\ installState' = r.installState
  /\ managementApiUrl' = r.managementApiUrl
  /\ trusted' = r.trusted
  /\ errorLog' = IF r.installState = "ERROR" /\ installState = "UNKNOWN" THEN r.log
                 ELSE errorLog
  /\ lastResult' = Result("updateInstallState", "returned", NoError, r.installState)

\* updateInstallState() of the poller started at 0, elapsed after its start.
CallUpdateInstallState(elapsed) ==
  /\ elapsed >= now
  /\ now' = elapsed
  /\ InstallStateUpdated(updateInstallState(installState, ReadTags(dropletInfo), elapsed,
                                            managementApiUrl, trusted))
  /\ UNCHANGED <<dropletInfo, pollers, waiters, installCompleted, resets, resetAt,
                 accessToken, servers, constructed, pending, requests, events, calls,
                 regionInfos, locations>>

NextTags == \E k \in DOMAIN TagKeys : CallGetTagValue(TagKeys[k])

InitTagsAlone == dropletInfo \in TaggedDroplets(OddTags, {PublicV4}) /\ ServerReset /\ AccountAtRest

\* getTagValue on every droplet info of the family.
SpecTags == InitTagsAlone /\ [][NextTags]_vars

NextInstall ==
  \/ CallSetApiUrlAndCertificate
  \/ \E elapsed \in ElapsedTimes : CallUpdateInstallState(elapsed)
  \/ OnDelete

InitInstallAlone ==
  /\ dropletInfo \in TaggedDroplets(OddInstallTags, {PublicV4, PrivateV4})
  /\ ServerReset
  /\ AccountAtRest

\* setApiUrlAndCertificate and updateInstallState on the droplet infos of the family.
SpecInstall == InitInstallAlone /\ [][NextInstall]_vars

(***************************************************************************)
(* Properties of DigitalOceanAccount.                                      *)
(***************************************************************************)
\* An HttpError with status 401 or a NetworkError.
IsConnectivityIssue(error) ==
  (error.type = "HttpError" /\ error.status = 401) \/ error.type = "NetworkError"

\* C7: when the provider API call of listLocations, createServer or listServers(true)
\* fails, account-connectivity-issue is emitted exactly once if the error is an
\* HttpError with status 401 or a NetworkError and not at all for any other error;
\* it is not emitted when the call succeeds.
C7_ConnectivityIssueEmittedOnce ==
  [][/\ \A error \in ApiErrors :
          (\/ ListLocationsCatches(error)
           \/ CreateDropletCatches(error)
           \/ ListServersCatches(error))
            => events' = events + (IF IsConnectivityIssue(error) THEN 1 ELSE 0)
     /\ (\/ \E answer \in AnsweredRegionLists : ListLocationsResolves(answer)
         \/ \E droplet \in AccountDroplets : CreateDropletResolves(droplet)
         \/ \E droplets \in DropletLists : ListServersResolves(droplets))
          => events' = events]_vars

\* C7, witness: two calls have failed, the event has been emitted once, and the
\* call that failed last failed with an HttpError whose status is not 401.
C7_Witness ==
  /\ events = 1
  /\ calls = 2
  /\ pending = NoPending
  /\ lastResult.error = HttpError(500)
  /\ requests.createDroplet = 1
  /\ requests.getDropletsByTag = 1

\* C8: listServers(false) returns the in-memory servers, issues no provider API
\* request, constructs no server and leaves the list as it is; listServers(true)
\* that succeeds replaces the list by one new server object per droplet of the
\* answer, in the order of the answer.
C8_ListServers ==
  [][/\ ListServersFromMemory =>
          /\ lastResult'.outcome = "fulfilled"
          /\ lastResult'.value = servers
          /\ servers' = servers
          /\ requests' = requests
          /\ pending' = pending
          /\ constructed' = constructed
     /\ \A droplets \in DropletLists :
          ListServersResolves(droplets) =>
            /\ Len(servers') = Len(droplets)
            /\ \A i \in 1..Len(droplets) :
                 /\ servers'[i].droplet = droplets[i]
                 /\ servers'[i].id > constructed
                 /\ \A j \in 1..Len(droplets) : servers'[i].id = servers'[j].id => i = j
            /\ constructed' = constructed + Len(droplets)
            /\ lastResult'.value = servers']_vars

\* C8, witness: listServers(true) has replaced a list of servers by two new ones,
\* of different droplets, which a listServers(false) has then returned.
C8_Witness ==
  /\ lastResult.op = "listServers"
  /\ lastResult.value = servers
  /\ calls = 3
  /\ requests.getDropletsByTag = 2
  /\ Len(servers) = 2
  /\ servers[1].droplet = "installed"
  /\ servers[2].droplet = "installing"
  /\ constructed = 3

\* The access token is empty once trimmed, or has a character outside the class.
TokenIsInvalid ==
  Trim(accessToken) = << >>
    \/ \E i \in 1..Len(Trim(accessToken)) : Trim(accessToken)[i] \notin PatternChars

\* C9: with an access token that, once trimmed, is empty or has a character outside
\* [A-Za-z0-9_/-], createServer rejects its promise with Invalid DigitalOcean Token
\* at once: no createDroplet request is ever issued, no server is constructed, the
\* servers are left as they are and no event is emitted.
C9_InvalidTokenRejectsCreateServer ==
  [][TokenIsInvalid =>
       /\ CreateServer =>
            /\ lastResult' = Result("createServer", "rejected", InvalidTokenError, << >>)
            /\ requests' = requests
            /\ pending' = pending
            /\ servers' = servers
            /\ constructed' = constructed
            /\ events' = events
       /\ requests'.createDroplet = 0
       /\ pending'.generateKeyPair = 0
       /\ pending'.createDroplet = 0]_vars

\* C9, witness: createServer has been rejected for a token with a blank inside,
\* the account holding the server of a listServers(true).
C9_Witness ==
  /\ accessToken = BrokenToken
  /\ lastResult = Result("createServer", "rejected", InvalidTokenError, << >>)
  /\ Len(servers) = 1
  /\ requests.createDroplet = 0

(***************************************************************************)
(* Properties of listLocations.                                            *)
(***************************************************************************)
\* The region is available and offers the machine size.
Offered(region) ==
  region.available /\ \E k \in 1..Len(region.sizes) : region.sizes[k] = MACHINE_SIZE

\* The lower-cased first three characters of a slug.
CityOf(slug) == [k \in 1..(IF Len(slug) < 3 THEN Len(slug) ELSE 3) |-> ToLowerChar(slug[k])]

\* Where a slug stands in the data center ids of the locations returned.
PlacesOf(slug) ==
  {<<l, k>> \in (1..Len(locations)) \X (1..MaxRegions + 1) :
     k <= Len(locations[l].dataCenterIds) /\ locations[l].dataCenterIds[k] = slug}

\* The input regions that are offered: their indices, and those of one city.
OfferedIn(city) ==
  {i \in 1..Len(regionInfos) :
     Offered(regionInfos[i]) /\ CityOf(regionInfos[i].slug) = city}

\* The regionIds are pairwise distinct and no location is empty.
LocationsWellFormed ==
  /\ \A l, m \in 1..Len(locations) : locations[l].regionId = locations[m].regionId => l = m
  /\ \A l \in 1..Len(locations) : locations[l].dataCenterIds # << >>

\* The locations and the slugs of each follow the order of the input: the slugs of
\* a location are those of the offered regions of its city, in the order of the
\* input, and a location comes before another if its first region does.
LocationsInInputOrder ==
  /\ \A l \in 1..Len(locations) :
       LET city == locations[l].regionId
           ids == locations[l].dataCenterIds
       IN  \E at \in [1..Len(ids) -> 1..Len(regionInfos)] :
             /\ \A k \in 1..Len(ids) : at[k] \in OfferedIn(city) /\ regionInfos[at[k]].slug = ids[k]
             /\ \A k, n \in 1..Len(ids) : k < n => at[k] < at[n]
  /\ \A l, m \in 1..Len(locations) :
       (l < m /\ OfferedIn(locations[l].regionId) # {} /\ OfferedIn(locations[m].regionId) # {})
         => \E i \in OfferedIn(locations[l].regionId) :
              \A j \in OfferedIn(locations[m].regionId) : i < j

\* C10, as stated: a slug of the input stands in some location iff its region is
\* offered (available, with size s-1vcpu-1gb); each such slug stands exactly once, in
\* the location of the lower-cased first three characters of the slug; regionIds are
\* pairwise distinct; no location is empty; the order follows the input.
C10_EachSlugExactlyOnce ==
  lastResult.op = "listLocations" =>
    /\ \A i \in 1..Len(regionInfos) :
         /\ PlacesOf(regionInfos[i].slug) # {} <=> Offered(regionInfos[i])
         /\ Offered(regionInfos[i]) =>
              /\ Cardinality(PlacesOf(regionInfos[i].slug)) = 1
              /\ \A place \in PlacesOf(regionInfos[i].slug) :
                   locations[place[1]].regionId = CityOf(regionInfos[i].slug)
    /\ LocationsWellFormed
    /\ LocationsInInputOrder

\* C10, amended: a slug stands in the locations once for each offered region of the
\* input that carries it (exactly once if the slugs of the input are pairwise
\* distinct, and not at all if no offered region carries it), always in the location
\* of the lower-cased first three characters of the slug; every slug of a location
\* is the slug of an offered region; regionIds are pairwise distinct; no location is
\* empty; the order follows the input.
C10_EachOfferedRegionOnce ==
  lastResult.op = "listLocations" =>
    /\ \A i \in 1..Len(regionInfos) :
         /\ Cardinality(PlacesOf(regionInfos[i].slug)) =
              Cardinality({j \in 1..Len(regionInfos) :
                             Offered(regionInfos[j]) /\ regionInfos[j].slug = regionInfos[i].slug})
         /\ \A place \in PlacesOf(regionInfos[i].slug) :
              locations[place[1]].regionId = CityOf(regionInfos[i].slug)
    /\ \A l \in 1..Len(locations) : \A k \in 1..Len(locations[l].dataCenterIds) :
         \E i \in 1..Len(regionInfos) :
           Offered(regionInfos[i]) /\ regionInfos[i].slug = locations[l].dataCenterIds[k]
    /\ LocationsWellFormed
    /\ LocationsInInputOrder

\* C10, witness: two offered regions of the same slug and a region of another city
\* that is not available have given one location that holds the slug twice.
C10_Witness ==
  /\ lastResult.op = "listLocations"
  /\ Len(regionInfos) = 3
  /\ ~regionInfos[2].available
  /\ Len(locations) = 1
  /\ locations[1].regionId = <<"n", "y", "c">>
  /\ locations[1].dataCenterIds = <<<<"N", "Y", "C", "3">>, <<"N", "Y", "C", "3">>>>

(***************************************************************************)
(* Properties of what DigitalOceanServer reads from the tags.              *)
(***************************************************************************)
\* Some v4 network of the droplet is public.
HasPublicV4(info) == \E i \in DOMAIN info.networks.v4 : info.networks.v4[i].type = "public"

\* A management API address is available: a non-empty API URL, or else a non-empty
\* port and a public address.
AddressAvailable(info) ==
  \/ Truthy(getTagValue(info, API_URL_TAG))
  \/ Truthy(getTagValue(info, DEPRECATED_API_PORT_TAG)) /\ HasPublicV4(info)

\* C13: setApiUrlAndCertificate returns true exactly when the tags give a non-empty
\* certificate fingerprint and a management API address is available; it then sets an
\* address that ends with a slash, which is the API URL tag's value (with a slash added
\* if it lacks one) whenever that value is non-empty, whatever the old port and prefix
\* tags say; when it returns false it sets nothing.
C13_TrueIffCertificateAndAddress ==
  [][lastResult'.op = "setApiUrlAndCertificate" /\ CallSetApiUrlAndCertificate =>
       /\ lastResult'.value =
            (/\ Truthy(getTagValue(dropletInfo, CERTIFICATE_FINGERPRINT_TAG))
             /\ AddressAvailable(dropletInfo))
       /\ lastResult'.value =>
            /\ managementApiUrl'.kind = "string"
            /\ EndsWithSlash(managementApiUrl'.val)
            /\ Truthy(getTagValue(dropletInfo, API_URL_TAG)) =>
                 managementApiUrl'.val \in
                   {getTagValue(dropletInfo, API_URL_TAG).val,
                    getTagValue(dropletInfo, API_URL_TAG).val \o <<"/">>}
       /\ ~lastResult'.value => UNCHANGED <<managementApiUrl, trusted>>]_vars

\* C13, witness: setApiUrlAndCertificate has returned true on a droplet that has an API
\* URL tag of a non-empty value beside the old port and prefix tags.
C13_Witness ==
  /\ lastResult.op = "setApiUrlAndCertificate"
  /\ lastResult.value = TRUE
  /\ installState = "UNKNOWN"
  /\ Truthy(getTagValue(dropletInfo, API_URL_TAG))
  /\ Truthy(getTagValue(dropletInfo, DEPRECATED_API_PORT_TAG))
  /\ Truthy(getTagValue(dropletInfo, DEPRECATED_API_PREFIX_TAG))
  /\ HasPublicV4(dropletInfo)

\* The tags give a certificate fingerprint and a management API address.
ApiAndCertificateTagged(info) ==
  Truthy(getTagValue(info, CERTIFICATE_FINGERPRINT_TAG)) /\ AddressAvailable(info)

\* C14: updateInstallState from UNKNOWN gives ERROR if the install-error tag has a
\* non-empty value; otherwise ERROR if at least 5 minutes have passed since the
\* start of its poller, even when the API and certificate tags are there; otherwise
\* SUCCESS if the API and certificate tags are there; otherwise UNKNOWN. No
\* updateInstallState makes the state DELETED.
C14_UpdatePrecedence ==
  [][\A elapsed \in ElapsedTimes :
       lastResult'.op = "updateInstallState" /\ CallUpdateInstallState(elapsed) =>
         /\ installState = "UNKNOWN" =>
              installState' =
                IF Truthy(getTagValue(dropletInfo, INSTALL_ERROR_TAG)) THEN "ERROR"
                ELSE IF elapsed >= 5 * 60 * 1000 THEN "ERROR"
                ELSE IF ApiAndCertificateTagged(dropletInfo) THEN "SUCCESS"
                ELSE "UNKNOWN"
         /\ installState' = "DELETED" => installState = "DELETED"]_vars

\* C14, witness: updateInstallState has given ERROR on the timeout, on a droplet with
\* no install-error value whose tags give an API address and a certificate.
C14_Witness ==
  /\ lastResult.op = "updateInstallState"
  /\ installState = "ERROR"
  /\ errorLog = "hit timeout"
  /\ ~Truthy(getTagValue(dropletInfo, INSTALL_ERROR_TAG))
  /\ ApiAndCertificateTagged(dropletInfo)

\* The text kv:<key>: of a key.
KeyPrefix(key) == <<"k", "v", ":">> \o key \o <<":">>

\* The tag starts with kv:<key>:, letters compared without their case.
StartsWithKeyPrefix(tag, key) ==
  /\ Len(tag) >= Len(KeyPrefix(key))
  /\ \A i \in 1..Len(KeyPrefix(key)) : ToLowerChar(tag[i]) = ToLowerChar(KeyPrefix(key)[i])

\* The places of the tags that start with kv:<key>:.
MatchingTags(tags, key) == {i \in 1..Len(tags) : StartsWithKeyPrefix(tags[i], key)}

FirstOf(places) == CHOOSE i \in places : \A j \in places : i <= j

\* The text is a sequence of pairs of hex digits.
IsHexText(h) ==
  /\ Len(h) % 2 = 0
  /\ \A i \in 1..Len(h) :
       h[i] \in {"0", "1", "2", "3", "4", "5", "6", "7", "8", "9", "a", "b", "c", "d", "e",
                 "f", "A", "B", "C", "D", "E", "F"}

\* What getTagValue(key) must give on the tags, v being the value of the key's
\* well-formed tag: undefined without a matching tag; with one, the first decides: v if
\* it is makeKeyValueTag(key, v), the empty string if it is the bare prefix, null if
\* what follows its prefix is no hex text.
TagValueAsClaimed(tags, key, v, value) ==
  /\ MatchingTags(tags, key) = {} <=> value = Undefined
  /\ MatchingTags(tags, key) # {} =>
       /\ tags[FirstOf(MatchingTags(tags, key))] = makeKeyValueTag(key, v)
            => value = StringValue(v)
       /\ tags[FirstOf(MatchingTags(tags, key))] = makeKeyValueTag(key, << >>)
            => value = StringValue(<< >>)
       /\ ~IsHexText(SubSeq(tags[FirstOf(MatchingTags(tags, key))],
                            Len(KeyPrefix(key)) + 1,
                            Len(tags[FirstOf(MatchingTags(tags, key))])))
            => value = Null

\* C15: getTagValue(key) gives v if the first tag that starts with kv:<key>:,
\* whatever the case of its letters, is makeKeyValueTag(key, v); only that first tag
\* counts, so the result is null if what follows its prefix is no hex text, even with
\* a well-formed tag of the key further on; it is undefined if no tag matches; and no
\* tag made for one key matches the prefix of another key.
C15_GetTagValueRoundTrips ==
  [][\A k \in DOMAIN TagKeys :
       /\ lastResult'.op = "getTagValue"
       /\ lastResult'.value.key = TagKeys[k]
       /\ CallGetTagValue(TagKeys[k])
       =>
         /\ TagValueAsClaimed(dropletInfo.tags, TagKeys[k], TagValues[k],
                              lastResult'.value.value)
         /\ \A other \in DOMAIN TagKeys : \A v \in {<< >>, TagValues[other]} :
              other # k =>
                ~startsWithCaseInsensitive(makeKeyValueTag(TagKeys[other], v),
                                           makeKeyValueTagPrefix(TagKeys[k]))]_vars

\* C15, witness: getTagValue of the API URL has given null on a droplet whose first
\* API URL tag is no hex text and which has the well-formed tag further on.
C15_Witness ==
  /\ lastResult.op = "getTagValue"
  /\ lastResult.value.key = API_URL_TAG
  /\ lastResult.value.value = Null
  /\ \E i \in DOMAIN dropletInfo.tags :
       dropletInfo.tags[i] = makeKeyValueTag(API_URL_TAG, ApiUrlValue)

(***************************************************************************)
(* The refresh pollers of one server.                                      *)
(***************************************************************************)
\* C16: at most one refresh poller of the server is active at any time, whatever the
\* constructor, waitOnInstall(true), waitOnInstall(false) and delete() have done: a
\* waitOnInstall(true) never runs beside the poller of an earlier call.
C16_AtMostOneActivePoller == ActiveOf(pollers) <= 1

====
